---- MODULE Spec2Model ----
(***************************************************************************)
(* Two Streamlit scripts.                                                  *)
(*                                                                         *)
(*  app.py                  the energy forecast dashboard: widgets, and    *)
(*                          the body of the "Run Forecast" button.         *)
(*  Streamlit demo/main.py  the fruit and vegetable classifier: the page   *)
(*                          selector and the "Predict" button.             *)
(*                                                                         *)
(* Streamlit runs a script from top to bottom on every interaction, so an  *)
(* action is one run of the script: the widget that changed, and what the  *)
(* run renders.  A run in which the button is not pressed renders no       *)
(* forecast (no prediction).                                               *)
(*                                                                         *)
(* Quantities are exact decimal fixed point numbers:                       *)
(*   Watts        W                                                        *)
(*   Energy_kWh   1/KWH_UNIT kWh                                           *)
(*   tariffs      1/100 $ per kWh,  Cost   in 1/(100*KWH_UNIT) $           *)
(*   CO2_FACTOR   1/1000 kg per kWh, CO2_kg in 1/(1000*KWH_UNIT) kg        *)
(* The binary rounding of Python floats is not modelled.                   *)
(***************************************************************************)
EXTENDS Integers, Sequences, FiniteSets, TLC

VARIABLES
    \* ---- app.py
    reg_model,            \* the loaded regression model (an external artifact)
    selected_devices,     \* st.multiselect
    days,                 \* st.slider "Days to Forecast"
    duration,             \* st.slider "Average Usage Hours per Day"
    start_date,           \* st.date_input, in days after 2022-09-24
    status,               \* "idle" | "done" | "error": how the last run ended
    final,                \* pd.concat(results)
    summary,              \* final.groupby("Appliance").sum()
    daily_summary,        \* final.groupby(date).sum()
    best_day, worst_day,
    top_cost_appliance, top_co2_appliance,
    rendered,             \* the sections the run has written, in order
    \* ---- Streamlit demo/main.py
    labels_file,          \* labels.txt, a sequence of characters
    app_mode,             \* st.sidebar.selectbox
    test_image,           \* st.file_uploader: TRUE when a file is uploaded
    result_index,         \* model_prediction(test_image)
    shown,                \* what the Prediction page shows
    shown_label           \* label[result_index], when shown = "label"

forecast_vars == <<reg_model, selected_devices, days, duration, start_date, status,
                   final, summary, daily_summary, best_day, worst_day,
                   top_cost_appliance, top_co2_appliance, rendered>>
classifier_vars == <<labels_file, app_mode, test_image, result_index, shown, shown_label>>
vars == <<forecast_vars, classifier_vars>>

(***************************************************************************)
(* Bounds of the model.                                                    *)
(***************************************************************************)
MaxDays == 5            \* days ranges over DAYS_MIN..MaxDays
MaxDuration == 3        \* duration ranges over DURATION_MIN..MaxDuration
MaxStartOffset == 1     \* start_date ranges over 0..MaxStartOffset
MaxFileLen == 4         \* labels.txt holds at most this many characters
NumClasses == 3         \* the classifier's output vector has this many entries

Min(a, b) == IF a <= b THEN a ELSE b

(***************************************************************************)
(* app.py: constants and widgets.                                          *)
(***************************************************************************)
KWH_UNIT == 1000
CO2_FACTOR == 475
TARIFF_DAY == 15
TARIFF_NIGHT == 9

DAYS_MIN == 3
DAYS_MAX == 14
DAYS_DEFAULT == 7
DURATION_MIN == 1
DURATION_MAX == 12
DURATION_DEFAULT == 3

\* le.classes_: the appliance names the encoder knows, sorted (as LabelEncoder
\* keeps them), so that the order of names is the order of their ids.
all_devices == <<"fridge", "tv">>

\* le.transform([device])[0]: the 0-based position of the name in le.classes_.
le_transform(device) ==
    (CHOOSE i \in 1..Len(all_devices) : all_devices[i] = device) - 1

\* The regression models considered.  The model is an opaque artifact: a map of
\* (hour, day, weekday, node_encoded) to watts.  Here each appliance has a load
\* profile (flat, morning-heavy or evening-heavy) and the weekday adds wd_coef
\* watts per weekday number; the day of the month adds nothing.
Profiles == {"flat", "morning", "evening"}
RegModels == [profile : [0..(Len(all_devices) - 1) -> Profiles], wd_coef : {0, 50}]

\* reg_model.predict(...) of one row
reg_model_predict(m, hour, day, weekday, node_encoded) ==
    LET p    == m.profile[node_encoded]
        base == IF p = "flat" THEN 1000
                ELSE IF (p = "morning") = (hour < 12) THEN 2000 ELSE 100
    IN  base + m.wd_coef * weekday

(***************************************************************************)
(* Timestamps are hours since 2022-09-24 00:00 (a Saturday).               *)
(***************************************************************************)
ts_hour(t) == t % 24
ts_date(t) == t \div 24
\* September has 30 days; the windows modelled end before November.
ts_day(t) == IF ts_date(t) <= 6 THEN 24 + ts_date(t) ELSE ts_date(t) - 6
ts_weekday(t) == (5 + ts_date(t)) % 7

\* pd.date_range(start=start, periods=periods, freq="h")
date_range(start, periods) == [k \in 1..periods |-> start * 24 + (k - 1)]

(***************************************************************************)
(* app.py: the per-row derivations of "Run Forecast".                      *)
(***************************************************************************)
hours_ahead_inclusive(d) == 24 * d + 1
hours_ahead(d) == 24 * d

Energy_kWh_perHour(watts, dur) == (watts * KWH_UNIT) \div 1000
\* (watts * duration) / 1000
Energy_kWh(watts, dur) == (watts * dur * KWH_UNIT) \div 1000

CO2_kg_fromCost(energy, hour) ==
    energy * (IF hour >= 22 \/ hour < 6 THEN TARIFF_NIGHT ELSE TARIFF_DAY)
\* df["Energy_kWh"] * CO2_FACTOR; the hour is not read
CO2_kg(energy, hour) == energy * CO2_FACTOR

Tariff_exclusive(hour) == IF hour > 22 \/ hour < 6 THEN TARIFF_NIGHT ELSE TARIFF_DAY
\* TARIFF_NIGHT if (r["hour"] >= 22 or r["hour"] < 6) else TARIFF_DAY
Tariff(hour) == IF hour >= 22 \/ hour < 6 THEN TARIFF_NIGHT ELSE TARIFF_DAY

Cost_perHour(watts, energy, hour) == ((watts * KWH_UNIT) \div 1000) * Tariff(hour)
\* lambda r: r["Energy_kWh"] * (tariff of r["hour"]); the row's Watts is not read
Cost(watts, energy, hour) == energy * Tariff(hour)

\* One row of the frame of an appliance: the features, the prediction and the
\* columns derived from it.
ForecastRow(m, device, dev_id, t, dur, watts, energy) ==
    [hour |-> ts_hour(t), day |-> ts_day(t), weekday |-> ts_weekday(t),
     node_encoded |-> dev_id, timestamp |-> t, Watts |-> watts,
     Energy_kWh |-> energy, CO2_kg |-> CO2_kg(energy, ts_hour(t)),
     Cost |-> Cost(watts, energy, ts_hour(t)), Appliance |-> device]

\* The frame of one appliance: one row per timestamp of future.
DeviceFrame(m, device, future, dur) ==
    \* dev_id = le.transform([device])[0]
    LET dev_id == le_transform(device)
    IN  [k \in 1..Len(future) |->
            LET t     == future[k]
                \* reg_model.predict(df.drop(columns=["timestamp"]))
                watts == reg_model_predict(m, ts_hour(t), ts_day(t), ts_weekday(t), dev_id)
            IN  ForecastRow(m, device, dev_id, t, dur, watts, Energy_kWh(watts, dur))]

\* pd.concat raises ValueError("No objects to concatenate") on an empty list.
concat_accepts_empty(results) == FALSE
concat_raises(results) == results = <<>>

RECURSIVE concat(_)
concat(results) ==
    IF results = <<>> THEN <<>> ELSE Head(results) \o concat(Tail(results))

(***************************************************************************)
(* app.py: the aggregates.  A grouped frame is a sequence of lines         *)
(* [key, Energy_kWh, CO2_kg, Cost], sorted by key as groupby sorts it.     *)
(***************************************************************************)
\* Series.sum(): the sum of rows[lo..hi][col], by halves
RECURSIVE SumRange(_, _, _, _)
SumRange(rows, col, lo, hi) ==
    IF lo > hi THEN 0
    ELSE IF lo = hi THEN rows[lo][col]
    ELSE LET mid == (lo + hi) \div 2
         IN  SumRange(rows, col, lo, mid) + SumRange(rows, col, mid + 1, hi)

\* DataFrame[[...]].sum() of the three columns, as one line with the given key.
SumLine(key, rows) ==
    [key |-> key, Energy_kWh |-> SumRange(rows, "Energy_kWh", 1, Len(rows)),
     CO2_kg |-> SumRange(rows, "CO2_kg", 1, Len(rows)),
     Cost |-> SumRange(rows, "Cost", 1, Len(rows))]

RECURSIVE SortedSeq(_)
SortedSeq(S) ==
    IF S = {} THEN <<>>
    ELSE LET lo == CHOOSE x \in S : \A y \in S : x <= y
         IN  <<lo>> \o SortedSeq(S \ {lo})

\* The distinct values of the grouping column, sorted.  Appliance names sort as
\* they stand in le.classes_.
ApplianceKeys(rows) ==
    SelectSeq(all_devices, LAMBDA d : \E i \in 1..Len(rows) : rows[i].Appliance = d)
DateKeys(rows) == SortedSeq({ts_date(rows[i].timestamp) : i \in 1..Len(rows)})

ApplianceLine_ungrouped(rows, key) == SumLine(key, rows)
\* One line of the grouped frame: the sums over the rows of the group.
ApplianceLine(rows, key) == SumLine(key, SelectSeq(rows, LAMBDA r : r.Appliance = key))
DateLine(rows, key) == SumLine(key, SelectSeq(rows, LAMBDA r : ts_date(r.timestamp) = key))

\* final.groupby("Appliance")[["Energy_kWh","CO2_kg","Cost_$"]].sum()
groupby_Appliance(rows) ==
    LET keys == ApplianceKeys(rows)
    IN  [g \in 1..Len(keys) |-> ApplianceLine(rows, keys[g])]

\* final.groupby(final["timestamp"].dt.date)[["Energy_kWh","CO2_kg","Cost_$"]].sum()
groupby_date(rows) ==
    LET keys == DateKeys(rows)
    IN  [g \in 1..Len(keys) |-> DateLine(rows, keys[g])]

idxmin_last(lines, col) ==
    lines[Len(lines)].key
\* Series.idxmin(): the key of the first line that holds the minimum
idxmin(lines, col) ==
    LET i == CHOOSE i \in 1..Len(lines) :
                 /\ \A j \in 1..Len(lines) : lines[i][col] <= lines[j][col]
                 /\ \A j \in 1..(i - 1) : lines[j][col] > lines[i][col]
    IN  lines[i].key

\* Series.idxmax(): the key of the first line that holds the maximum
idxmax(lines, col) ==
    LET i == CHOOSE i \in 1..Len(lines) :
                 /\ \A j \in 1..Len(lines) : lines[i][col] >= lines[j][col]
                 /\ \A j \in 1..(i - 1) : lines[j][col] < lines[i][col]
    IN  lines[i].key

top_cost_by_energy(summ) == idxmax(summ, "Energy_kWh")
\* summary["Cost_$"].idxmax()
top_cost(summ) == idxmax(summ, "Cost")
\* summary["CO2_kg"].idxmax()
top_co2(summ) == idxmax(summ, "CO2_kg")

(***************************************************************************)
(* app.py: one run of the script.                                          *)
(***************************************************************************)
\* The selections st.multiselect can return: the chosen names, each once, in
\* the order they were chosen.
Selections ==
    {sel \in UNION {[1..n -> {all_devices[i] : i \in 1..Len(all_devices)}] :
                        n \in 0..Len(all_devices)} :
        \A i, j \in 1..Len(sel) : i # j => sel[i] # sel[j]}

DaysRange == DAYS_MIN..Min(DAYS_MAX, MaxDays)
DurationRange == DURATION_MIN..Min(DURATION_MAX, MaxDuration)
StartDates == 0..MaxStartOffset

\* A run in which "Run Forecast" is not pressed: nothing of the forecast is
\* computed or rendered.
NoForecast ==
    /\ status' = "idle"
    /\ final' = <<>>
    /\ summary' = <<>>
    /\ daily_summary' = <<>>
    /\ best_day' = "none"
    /\ worst_day' = "none"
    /\ top_cost_appliance' = "none"
    /\ top_co2_appliance' = "none"
    /\ rendered' = <<>>

ForecastInit ==
    /\ reg_model \in RegModels
    /\ selected_devices = <<all_devices[1]>>
    /\ days = Min(DAYS_DEFAULT, MaxDays)
    /\ duration = Min(DURATION_DEFAULT, MaxDuration)
    /\ start_date = 0
    /\ status = "idle"
    /\ final = <<>>
    /\ summary = <<>>
    /\ daily_summary = <<>>
    /\ best_day = "none"
    /\ worst_day = "none"
    /\ top_cost_appliance = "none"
    /\ top_co2_appliance = "none"
    /\ rendered = <<>>

SelectDevices(sel) ==
    /\ sel # selected_devices
    /\ selected_devices' = sel
    /\ NoForecast
    /\ UNCHANGED <<reg_model, days, duration, start_date, classifier_vars>>

SetDays(d) ==
    /\ d # days
    /\ days' = d
    /\ NoForecast
    /\ UNCHANGED <<reg_model, selected_devices, duration, start_date, classifier_vars>>

SetDuration(d) ==
    /\ d # duration
    /\ duration' = d
    /\ NoForecast
    /\ UNCHANGED <<reg_model, selected_devices, days, start_date, classifier_vars>>

SetStartDate(d) ==
    /\ d # start_date
    /\ start_date' = d
    /\ NoForecast
    /\ UNCHANGED <<reg_model, selected_devices, days, duration, classifier_vars>>

\* if st.button("Run Forecast"): the whole body, to its end or to the
\* exception that ends the run.
RunForecast ==
    \E future \in {date_range(start_date, hours_ahead(days))} :
    \E results \in {[i \in 1..Len(selected_devices) |->
                        DeviceFrame(reg_model, selected_devices[i], future, duration)]} :
    \E fin \in {concat(results)} :
    \E summ \in {groupby_Appliance(fin)} :
    \E daily \in {groupby_date(fin)} :
        /\ IF concat_raises(results)
           THEN \* ValueError at pd.concat(results)
                /\ status' = "error"
                /\ final' = <<>>
                /\ summary' = <<>>
                /\ daily_summary' = <<>>
                /\ best_day' = "none"
                /\ worst_day' = "none"
                /\ top_cost_appliance' = "none"
                /\ top_co2_appliance' = "none"
                /\ rendered' = <<>>
           ELSE IF daily = <<>>
           THEN \* ValueError at daily_summary["Cost_$"].idxmin() of an empty frame
                /\ status' = "error"
                /\ final' = fin
                /\ summary' = summ
                /\ daily_summary' = daily
                /\ best_day' = "none"
                /\ worst_day' = "none"
                /\ top_cost_appliance' = "none"
                /\ top_co2_appliance' = "none"
                /\ rendered' = <<"summary", "totals">>
           ELSE /\ status' = "done"
                /\ final' = fin
                /\ summary' = summ
                /\ daily_summary' = daily
                /\ best_day' = idxmin(daily, "Cost")
                /\ worst_day' = idxmax(daily, "Cost")
                /\ top_cost_appliance' = top_cost(summ)
                /\ top_co2_appliance' = top_co2(summ)
                /\ rendered' = <<"summary", "totals", "best_worst", "top_contributors",
                                 "pie", "bar", "line">>
        /\ UNCHANGED <<reg_model, selected_devices, days, duration, start_date,
                       classifier_vars>>

ForecastNext ==
    \/ \E sel \in Selections : SelectDevices(sel)
    \/ \E d \in DaysRange : SetDays(d)
    \/ \E d \in DurationRange : SetDuration(d)
    \/ \E d \in StartDates : SetStartDate(d)
    \/ RunForecast

(***************************************************************************)
(* Streamlit demo/main.py.                                                 *)
(***************************************************************************)
Chars == {"a", "b", "\n"}
LabelFiles == UNION {[1..n -> Chars] : n \in 0..MaxFileLen}
Pages == {"Home", "About Project", "Prediction"}
\* The vectors model.predict may return: one score per class.
Predictions == [1..NumClasses -> 0..2]

\* np.argmax(predictions): the 0-based index of the first maximum
argmax(predictions) ==
    (CHOOSE i \in 1..Len(predictions) :
        /\ \A j \in 1..Len(predictions) : predictions[i] >= predictions[j]
        /\ \A j \in 1..(i - 1) : predictions[j] < predictions[i]) - 1

\* f.readlines(): the lines of the file, each with its "\n" when it has one
RECURSIVE readlines(_)
readlines(f) ==
    IF f = <<>> THEN <<>>
    ELSE LET ends == {i \in 1..Len(f) : f[i] = "\n"}
             e    == IF ends = {} THEN Len(f)
                     ELSE CHOOSE i \in ends : \A j \in ends : i <= j
         IN  <<SubSeq(f, 1, e)>> \o readlines(SubSeq(f, e + 1, Len(f)))

\* i[:-1]: the line without its last character
DropLast(line) == SubSeq(line, 1, Len(line) - 1)

\* label=[]; for i in content: label.append(i[:-1])
Labels(f) ==
    LET content == readlines(f)
    IN  [k \in 1..Len(content) |-> DropLast(content[k])]

ClassifierInit ==
    /\ labels_file \in LabelFiles
    /\ app_mode = "Home"
    /\ test_image = FALSE
    /\ result_index = "none"
    /\ shown = "page"
    /\ shown_label = <<>>

\* st.sidebar.selectbox("Select Page", ...): the run renders the page alone
SelectPage(p) ==
    /\ p # app_mode
    /\ app_mode' = p
    /\ result_index' = "none"
    /\ shown' = "page"
    /\ shown_label' = <<>>
    /\ UNCHANGED <<labels_file, test_image, forecast_vars>>

\* st.file_uploader("Choose an Image"): a file is chosen, or removed
Upload(present) ==
    /\ app_mode = "Prediction"
    /\ present # test_image
    /\ test_image' = present
    /\ result_index' = "none"
    /\ shown' = "page"
    /\ shown_label' = <<>>
    /\ UNCHANGED <<labels_file, app_mode, forecast_vars>>

\* if(st.button("Show Image")), with a file uploaded
ShowImage ==
    /\ app_mode = "Prediction"
    /\ test_image
    /\ result_index' = "none"
    /\ shown' = "image"
    /\ shown_label' = <<>>
    /\ UNCHANGED <<labels_file, app_mode, test_image, forecast_vars>>

\* if(st.button("Predict")): the whole body
Predict ==
    /\ app_mode = "Prediction"
    /\ IF ~test_image
       THEN \* load_img(None) raises
            /\ result_index' = "none"
            /\ shown' = "error"
            /\ shown_label' = <<>>
       ELSE \E predictions \in Predictions :
                LET idx   == argmax(predictions)
                    label == Labels(labels_file)
                IN  /\ result_index' = idx
                    /\ IF idx < Len(label)
                       THEN /\ shown' = "label"
                            /\ shown_label' = label[idx + 1]
                       ELSE \* IndexError at label[result_index]
                            /\ shown' = "error"
                            /\ shown_label' = <<>>
    /\ UNCHANGED <<labels_file, app_mode, test_image, forecast_vars>>

ClassifierNext ==
    \/ \E p \in Pages : SelectPage(p)
    \/ \E present \in BOOLEAN : Upload(present)
    \/ ShowImage
    \/ Predict

(***************************************************************************)
(* The specifications: one per script.  The other script's variables keep  *)
(* their initial values.                                                   *)
(***************************************************************************)
ClassifierAtRest ==
    /\ labels_file = <<>>
    /\ app_mode = "Home"
    /\ test_image = FALSE
    /\ result_index = "none"
    /\ shown = "page"
    /\ shown_label = <<>>

ForecastAtRest ==
    /\ ForecastInit
    /\ reg_model = [profile |-> [n \in 0..(Len(all_devices) - 1) |-> "flat"], wd_coef |-> 0]

Init == ForecastInit /\ ClassifierAtRest
Next == ForecastNext
Spec == Init /\ [][Next]_vars

InitClassifier == ClassifierInit /\ ForecastAtRest
NextClassifier == ClassifierNext
SpecClassifier == InitClassifier /\ [][NextClassifier]_vars

(***************************************************************************)
(* Properties of app.py.  They read the rows and aggregates a finished run *)
(* left behind, and compute what they compare against on their own.        *)
(***************************************************************************)
Rows == 1..Len(final)
NightHours == {22, 23} \cup 0..5
DayHours == 6..21

\* The sum of column col over the rows of final of appliance d (on date e).
RECURSIVE ApplianceTotalIn(_, _, _, _)
ApplianceTotalIn(lo, hi, d, col) ==
    IF lo > hi THEN 0
    ELSE IF lo = hi THEN (IF final[lo].Appliance = d THEN final[lo][col] ELSE 0)
    ELSE ApplianceTotalIn(lo, (lo + hi) \div 2, d, col)
             + ApplianceTotalIn((lo + hi) \div 2 + 1, hi, d, col)

RECURSIVE DateTotalIn(_, _, _, _)
DateTotalIn(lo, hi, e, col) ==
    IF lo > hi THEN 0
    ELSE IF lo = hi THEN (IF final[lo].timestamp \div 24 = e THEN final[lo][col] ELSE 0)
    ELSE DateTotalIn(lo, (lo + hi) \div 2, e, col)
             + DateTotalIn((lo + hi) \div 2 + 1, hi, e, col)

ApplianceTotal(d, col) == ApplianceTotalIn(1, Len(final), d, col)
DateTotal(e, col) == DateTotalIn(1, Len(final), e, col)
Window == start_date..(start_date + days - 1)
Selected == {selected_devices[i] : i \in 1..Len(selected_devices)}

\* C1: every forecast row has an hour in 0..23 and is charged the night rate
\* exactly when its hour is >= 22 or < 6 (hours 22, 23, 0..5), and the day rate
\* at every hour in 6..21.
C1_TariffByHour ==
    status = "done" =>
        \A i \in Rows :
            LET r == final[i]
            IN  /\ r.hour \in 0..23
                /\ r.hour \in NightHours => r.Cost = r.Energy_kWh * TARIFF_NIGHT
                /\ r.hour \in DayHours => r.Cost = r.Energy_kWh * TARIFF_DAY
                /\ r.Energy_kWh # 0 =>
                       ((r.Cost = r.Energy_kWh * TARIFF_NIGHT) <=> (r.hour >= 22 \/ r.hour < 6))

\* A run whose rows cover the four boundary hours, each with energy to charge.
C1_Witness ==
    /\ status = "done"
    /\ \A h \in {5, 6, 21, 22} : \E i \in Rows : final[i].hour = h /\ final[i].Energy_kWh > 0
    /\ \E i \in Rows : final[i].hour = 22 /\ final[i].Cost = final[i].Energy_kWh * TARIFF_NIGHT
    /\ \E i \in Rows : final[i].hour = 21 /\ final[i].Cost = final[i].Energy_kWh * TARIFF_DAY

\* C2: in every forecast row, Energy_kWh is the row's Watts times the chosen
\* duration, divided by 1000, with no remainder lost.
C2_EnergyExact ==
    status = "done" =>
        \A i \in Rows : final[i].Energy_kWh * 1000 = final[i].Watts * duration * KWH_UNIT

\* A run with a duration other than one hour and a row that draws power.
C2_Witness ==
    /\ status = "done"
    /\ duration = MaxDuration
    /\ duration > 1
    /\ \E i \in Rows : final[i].Watts > 0 /\ final[i].Energy_kWh > final[i].Watts

\* C3: in every forecast row, Cost is the row's Energy_kWh times the tariff of
\* the row's hour; a row of 1000 W at hour 23 with duration 3 has 3.0 kWh,
\* costs $0.27 and emits 1.425 kg.
C3_CostIsEnergyTimesTariff ==
    status = "done" =>
        \A i \in Rows :
            LET r == final[i]
            IN  /\ r.Cost = r.Energy_kWh * (IF r.hour \in NightHours THEN 9 ELSE 15)
                /\ (duration = 3 /\ r.Watts = 1000 /\ r.hour = 23) =>
                       /\ r.Energy_kWh = 3 * KWH_UNIT
                       /\ r.Cost = 27 * KWH_UNIT
                       /\ r.CO2_kg = 1425 * KWH_UNIT

\* The run of the example: duration 3 and a row of 1000 W at hour 23.
C3_Witness ==
    /\ status = "done"
    /\ duration = 3
    /\ \E i \in Rows : final[i].Watts = 1000 /\ final[i].hour = 23

\* C4: in every forecast row, CO2_kg is the row's Energy_kWh times 0.475,
\* whatever the row's hour and tariff.
C4_CO2IsEnergyTimesFactor ==
    status = "done" =>
        \A i \in Rows : final[i].CO2_kg = final[i].Energy_kWh * 475

\* A run with a night row and a day row of the same energy: the same CO2 and
\* different costs.
C4_Witness ==
    /\ status = "done"
    /\ \E i, j \in Rows :
        /\ final[i].hour = 23 /\ final[j].hour = 12
        /\ final[i].Energy_kWh = final[j].Energy_kWh
        /\ final[i].Energy_kWh > 0
        /\ final[i].CO2_kg = final[j].CO2_kg
        /\ final[i].Cost < final[j].Cost

\* C5: the appliance summary has exactly one line per selected appliance, and
\* each line's Energy_kWh, CO2_kg and Cost is the sum of that column over the
\* rows of that appliance, no more and no fewer.
C5_SummaryIsPerApplianceSum ==
    status = "done" =>
        /\ Len(summary) = Len(selected_devices)
        /\ \A d \in Selected :
               /\ Cardinality({g \in 1..Len(summary) : summary[g].key = d}) = 1
               /\ \A g \in 1..Len(summary) :
                      summary[g].key = d =>
                          /\ summary[g].Energy_kWh = ApplianceTotal(d, "Energy_kWh")
                          /\ summary[g].CO2_kg = ApplianceTotal(d, "CO2_kg")
                          /\ summary[g].Cost = ApplianceTotal(d, "Cost")
        /\ \A g \in 1..Len(summary) : summary[g].key \in Selected

\* A run over two appliances whose totals differ.
C5_Witness ==
    /\ status = "done"
    /\ Len(selected_devices) = 2
    /\ Len(summary) = 2
    /\ summary[1].Cost # summary[2].Cost
    /\ summary[1].Energy_kWh # summary[2].Energy_kWh

\* C6: after a run, best_day is a date of the forecast window whose cost, summed
\* over all selected appliances and all its hours, is at most that of every
\* other date of the window, and worst_day one whose cost is at least that of
\* every other date.
C6_BestWorstDay ==
    status = "done" =>
        /\ best_day \in Window
        /\ worst_day \in Window
        /\ \A e \in Window :
               /\ DateTotal(best_day, "Cost") <= DateTotal(e, "Cost")
               /\ DateTotal(worst_day, "Cost") >= DateTotal(e, "Cost")

\* A run whose days differ in cost, with the cheapest day neither the first nor
\* the last of the window.
C6_Witness ==
    /\ status = "done"
    /\ DateTotal(best_day, "Cost") < DateTotal(worst_day, "Cost")
    /\ best_day # start_date
    /\ best_day # start_date + days - 1

\* C7: the biggest cost driver is a selected appliance whose total Cost is at
\* least that of every other selected appliance, and the highest carbon impact
\* one whose total CO2_kg is at least that of every other; the two may be the
\* same appliance or different ones.
C7_TopContributors ==
    status = "done" =>
        /\ top_cost_appliance \in Selected
        /\ top_co2_appliance \in Selected
        /\ \A d \in Selected :
               /\ ApplianceTotal(top_cost_appliance, "Cost") >= ApplianceTotal(d, "Cost")
               /\ ApplianceTotal(top_co2_appliance, "CO2_kg") >= ApplianceTotal(d, "CO2_kg")

\* A run in which the two name different appliances, each strictly ahead.
C7_Witness ==
    /\ status = "done"
    /\ top_cost_appliance # top_co2_appliance
    /\ ApplianceTotal(top_cost_appliance, "Cost") > ApplianceTotal(top_co2_appliance, "Cost")
    /\ ApplianceTotal(top_co2_appliance, "CO2_kg") > ApplianceTotal(top_cost_appliance, "CO2_kg")

\* A run over two appliances of different totals in which the two name the same one.
C7_SameAppliance ==
    /\ status = "done"
    /\ Len(selected_devices) = 2
    /\ top_cost_appliance = top_co2_appliance
    /\ \E d \in Selected :
           ApplianceTotal(d, "Cost") < ApplianceTotal(top_cost_appliance, "Cost")

\* C9: a run with no appliance selected is not refused: it ends in an error
\* where the per-appliance results are combined, with no forecast row and with
\* no summary, total, recommendation or chart.
C9_EmptySelectionFails ==
    (selected_devices = <<>> /\ status # "idle") =>
        /\ status = "error"
        /\ final = <<>>
        /\ summary = <<>>
        /\ daily_summary = <<>>
        /\ best_day = "none" /\ worst_day = "none"
        /\ top_cost_appliance = "none" /\ top_co2_appliance = "none"
        /\ rendered = <<>>

\* Run Forecast was pressed with nothing selected, and the run ended in error.
C9_Witness ==
    /\ selected_devices = <<>>
    /\ status = "error"

\* C10: each selected appliance has exactly 24*days rows, one per consecutive
\* hour from 00:00 of the start date; the per-day aggregate has exactly `days`
\* dates, and each date holds exactly 24 rows of each selected appliance, hours
\* 0..23 once each.
C10_RowsPerDay ==
    status = "done" =>
        /\ \A d \in Selected :
               LET mine == {i \in Rows : final[i].Appliance = d}
               IN  /\ Cardinality(mine) = 24 * days
                   /\ {final[i].timestamp : i \in mine}
                          = (start_date * 24)..(start_date * 24 + 24 * days - 1)
                   /\ \A i \in mine : (i + 1) \in mine =>
                          final[i + 1].timestamp = final[i].timestamp + 1
                   /\ \A e \in Window :
                          LET ofDay == {i \in mine : final[i].timestamp \div 24 = e}
                          IN  /\ Cardinality(ofDay) = 24
                              /\ {final[i].hour : i \in ofDay} = 0..23
        /\ Len(daily_summary) = days
        /\ {daily_summary[g].key : g \in 1..Len(daily_summary)} = Window

\* A run of the longest window modelled over two appliances.
C10_Witness ==
    /\ status = "done"
    /\ days = MaxDays
    /\ start_date > 0
    /\ Len(selected_devices) = 2
    /\ Len(final) = 2 * 24 * days

(***************************************************************************)
(* Properties of Streamlit demo/main.py.                                   *)
(***************************************************************************)
\* The positions at which a line of the file starts, and the text of line i
\* (0-based): the characters from its start up to, not including, the next
\* "\n" or the end of the file.
LineStarts(f) == {p \in 1..Len(f) : p = 1 \/ f[p - 1] = "\n"}
LineCount(f) == Cardinality(LineStarts(f))
TextOfLine(f, i) ==
    LET s    == CHOOSE p \in LineStarts(f) :
                    Cardinality({q \in LineStarts(f) : q < p}) = i
        ends == {q \in s..Len(f) : f[q] = "\n"}
        e    == IF ends = {} THEN Len(f) + 1
                ELSE CHOOSE q \in ends : \A q2 \in ends : q <= q2
    IN  SubSeq(f, s, e - 1)

\* C8: whenever the Prediction page shows a label for class index i, with i
\* within the label file's line count, the label is the text of line i of the
\* file, also when line i is the last line and has no trailing newline.
C8_LabelIsLineText ==
    (shown = "label" /\ result_index < LineCount(labels_file)) =>
        shown_label = TextOfLine(labels_file, result_index)

\* The same, for the files whose every line ends in a newline.
C8_LabelIsLineTextWhenTerminated ==
    (/\ shown = "label"
     /\ result_index < LineCount(labels_file)
     /\ labels_file[Len(labels_file)] = "\n") =>
        shown_label = TextOfLine(labels_file, result_index)

====
